---- MODULE Spec2Model ----
(***************************************************************************)
(* A model of the B3D chunk decoder (src/src/lib.rs, src/src/utils.rs,     *)
(* src/src/error.rs).  The input buffer is a sequence of bytes, the cursor *)
(* is an offset into it, and the recursive descent of B3D::read is a call  *)
(* stack of decoder frames; one action is one pass through the loop of one *)
(* decoder (a header read and its dispatch, one record, or the return).    *)
(*                                                                         *)
(* Numbers.  TLC's integers are 32-bit signed, so a u32 does not fit one.  *)
(* A u32 (and the u64 end offset of a chunk) is kept as two limbs          *)
(* [hi, lo] of value hi * 65536 + lo.  An f32 is kept as the u32 bit       *)
(* pattern of its four little-endian bytes; 0.0 is the pattern 0.          *)
(* A String is the sequence of its (validated) UTF-8 bytes.                *)
(***************************************************************************)
EXTENDS Integers, Sequences, FiniteSets, TLC

VARIABLES buf, pos, stack, outcome, done, decoded, input

vars == <<buf, pos, stack, outcome, done, decoded, input>>

---------------------------------------------------------------------------
(* Wide numbers *)

Limb == 256 * 256

W(n) == [hi |-> n \div Limb, lo |-> n % Limb]

Zero == W(0)

\* w + n for a small natural n (the carry goes to hi)
WAdd(w, n) == [hi |-> w.hi + ((w.lo + n) \div Limb), lo |-> (w.lo + n) % Limb]

\* n < w and n = w for an offset n below Limb
LessW(n, w) == w.hi > 0 \/ n < w.lo

EqW(n, w) == w.hi = 0 /\ w.lo = n

\* flags & mask != 0 for mask in {1, 2, 4}
Bit(w, mask) == (w.lo \div mask) % 2 = 1

---------------------------------------------------------------------------
(* The byte cursor: Cursor<&[u8]> with byteorder's little-endian reads.    *)
(* A read result is [err, pos, val]: err = "none" and the new offset, or   *)
(* the error kind; a failed read leaves nothing to continue with.          *)

OkR(p, v) == [err |-> "none", pos |-> p, val |-> v]

ErrR(kind, p) == [err |-> kind, pos |-> p, val |-> <<>>]

Bytes(b, p, n) == SubSeq(b, p + 1, p + n)

\* data.read_u32::<LittleEndian>()? / data.read_f32::<LittleEndian>()?
ReadU32(b, p) ==
    IF p + 4 > Len(b) THEN ErrR("Io", p)
    ELSE OkR(p + 4, [hi |-> b[p + 4] * 256 + b[p + 3], lo |-> b[p + 2] * 256 + b[p + 1]])

\* String::from_utf8: the well-formed byte sequences of UTF-8
RECURSIVE ValidUtf8(_)
ValidUtf8(s) ==
    LET n == Len(s)
        Cont(i) == i <= n /\ s[i] >= 128 /\ s[i] <= 191
        Rest(k) == ValidUtf8(SubSeq(s, k + 1, n))
    IN  IF n = 0 THEN TRUE
        ELSE LET c == s[1] IN
             IF c < 128 THEN Rest(1)
             ELSE IF c >= 194 /\ c <= 223 THEN Cont(2) /\ Rest(2)
             ELSE IF c = 224 THEN Cont(2) /\ s[2] >= 160 /\ Cont(3) /\ Rest(3)
             ELSE IF c = 237 THEN Cont(2) /\ s[2] <= 159 /\ Cont(3) /\ Rest(3)
             ELSE IF c >= 225 /\ c <= 239 THEN Cont(2) /\ Cont(3) /\ Rest(3)
             ELSE IF c = 240 THEN Cont(2) /\ s[2] >= 144 /\ Cont(3) /\ Cont(4) /\ Rest(4)
             ELSE IF c >= 241 /\ c <= 243 THEN Cont(2) /\ Cont(3) /\ Cont(4) /\ Rest(4)
             ELSE IF c = 244 THEN Cont(2) /\ s[2] <= 143 /\ Cont(3) /\ Cont(4) /\ Rest(4)
             ELSE FALSE

\* the offset of the first zero byte at or after p, Len(b) when there is none
ZeroAt(b, p) ==
    LET zs == {i \in p..(Len(b) - 1) : b[i + 1] = 0} IN
    IF zs = {} THEN Len(b) ELSE CHOOSE i \in zs : \A j \in zs : i <= j

\* read_null_term_string: read_u8().unwrap() in a loop, then
\* String::from_utf8(string).unwrap().  Neither failure is returned: unwrap panics,
\* "PanicIo" on the io::Error of a read past the end, "PanicUtf8" on the
\* FromUtf8Error.
read_null_term_string(b, p) ==
    LET z == ZeroAt(b, p) IN
    IF z >= Len(b) THEN ErrR("PanicIo", Len(b))
    ELSE IF ~ValidUtf8(Bytes(b, p, z - p)) THEN ErrR("PanicUtf8", z + 1)
    ELSE OkR(z + 1, Bytes(b, p, z - p))

\* data.read_f32_into::<LittleEndian>(&mut [0.0; n])?: one read_exact of 4n bytes
Words(b, p, n) == [i \in 1..n |-> ReadU32(b, p + 4 * (i - 1)).val]

ReadF32Into(b, p, n) == IF p + 4 * n > Len(b) THEN ErrR("Io", p) ELSE OkR(p + 4 * n, Words(b, p, n))

Zeros(n) == [i \in 1..n |-> Zero]

\* the loop run once too often: for _ in 0..=n
ReadU32Times_inclusive(b, p, n) ==
    IF n.hi = 0 /\ p + 4 * (n.lo + 1) <= Len(b)
    THEN OkR(p + 4 * (n.lo + 1), Words(b, p, n.lo + 1))
    ELSE ErrR("Io", p + 4 * ((Len(b) - p) \div 4))

\* for _ in 0..n { v.push(data.read_u32::<LittleEndian>()?) }: the n reads succeed
\* when 4n bytes are left, and the first read past the end fails otherwise
ReadU32Times(b, p, n) ==
    IF n.hi = 0 /\ p + 4 * n.lo <= Len(b) THEN OkR(p + 4 * n.lo, Words(b, p, n.lo))
    ELSE ErrR("Io", p + 4 * ((Len(b) - p) \div 4))

\* The fields of a record, read in the order the code reads them:
\*   "str"  read_null_term_string
\*   "u32"  read_u32 / read_f32
\*   "f32s" let mut x = [0.0; n]; if on { read_f32_into(&mut x)? }
\*   "u32s" n (a u32) reads of read_u32
StrF == [ty |-> "str", n |-> Zero, on |-> TRUE]

U32F == [ty |-> "u32", n |-> Zero, on |-> TRUE]

F32s(k) == [ty |-> "f32s", n |-> W(k), on |-> TRUE]

OptF32s(k, present) == [ty |-> "f32s", n |-> W(k), on |-> present]

U32s(n) == [ty |-> "u32s", n |-> n, on |-> TRUE]

ReadField(b, p, f) ==
    IF f.ty = "str" THEN read_null_term_string(b, p)
    ELSE IF f.ty = "u32" THEN ReadU32(b, p)
    ELSE IF f.ty = "f32s" THEN (IF f.on THEN ReadF32Into(b, p, f.n.lo) ELSE OkR(p, Zeros(f.n.lo)))
    ELSE ReadU32Times(b, p, f.n)

\* the `?` chain: the first failing read ends the record
RECURSIVE ReadFrom(_, _, _, _, _)
ReadFrom(b, p, layout, i, acc) ==
    IF i > Len(layout) THEN OkR(p, acc)
    ELSE LET r == ReadField(b, p, layout[i]) IN
         IF r.err # "none" THEN r ELSE ReadFrom(b, r.pos, layout, i + 1, Append(acc, r.val))

ReadFields(b, p, layout) == ReadFrom(b, p, layout, 1, <<>>)

---------------------------------------------------------------------------
(* Chunk headers *)

BB3D == <<66, 66, 51, 68>>
TEXS == <<84, 69, 88, 83>>
BRUS == <<66, 82, 85, 83>>
NODE == <<78, 79, 68, 69>>
MESH == <<77, 69, 83, 72>>
VRTS == <<86, 82, 84, 83>>
TRIS == <<84, 82, 73, 83>>
BONE == <<66, 79, 78, 69>>
KEYS == <<75, 69, 89, 83>>
ANIM == <<65, 78, 73, 77>>
SEQS == <<83, 69, 81, 83>>

NoChunk == [tag |-> <<>>, size |-> Zero, position |-> 0, next |-> Zero]

\* Chunk::read
Chunk_read(b, p) ==
    IF p + 4 > Len(b) THEN ErrR("Io", p)
    ELSE IF ~ValidUtf8(Bytes(b, p, 4)) THEN ErrR("Utf8", p + 4)
    ELSE LET s == ReadU32(b, p + 4) IN
         IF s.err # "none" THEN s
         ELSE OkR(s.pos, [tag |-> Bytes(b, p, 4), size |-> s.val,
                          position |-> p, next |-> WAdd(s.val, p + 8)])

\* eof(data, next): stream_position() < next
eof(p, next) == LessW(p, next)

---------------------------------------------------------------------------
(* Leaf records *)

Texture_read(b, p) ==
    LET r == ReadFields(b, p, <<StrF, U32F, U32F, F32s(2), F32s(2), U32F>>) IN
    IF r.err # "none" THEN r
    ELSE OkR(r.pos, [file |-> r.val[1], flags |-> r.val[2], blend |-> r.val[3],
                     position |-> r.val[4], scale |-> r.val[5], rotation |-> r.val[6]])

Brush_read(b, p, n_texs) ==
    LET r == ReadFields(b, p, <<StrF, F32s(4), U32F, U32F, U32F, U32s(n_texs)>>) IN
    IF r.err # "none" THEN r
    ELSE OkR(r.pos, [name |-> r.val[1], color |-> r.val[2], shininess |-> r.val[3],
                     blend |-> r.val[4], fx |-> r.val[5], texture_id |-> r.val[6]])

\* the two flag masks exchanged: normal under flags & 2, color under flags & 1
Vertice_read_swapped(b, p, flags) ==
    LET r == ReadFields(b, p, <<F32s(3), OptF32s(3, Bit(flags, 2)),
                                OptF32s(4, Bit(flags, 1)), F32s(2)>>) IN
    IF r.err # "none" THEN r
    ELSE OkR(r.pos, [position |-> r.val[1], normal |-> r.val[2],
                     color |-> r.val[3], tex_coords |-> r.val[4]])

\* one pass of the loop of Verts::read
Vertice_read(b, p, flags) ==
    LET r == ReadFields(b, p, <<F32s(3), OptF32s(3, Bit(flags, 1)),
                                OptF32s(4, Bit(flags, 2)), F32s(2)>>) IN
    IF r.err # "none" THEN r
    ELSE OkR(r.pos, [position |-> r.val[1], normal |-> r.val[2],
                     color |-> r.val[3], tex_coords |-> r.val[4]])

\* the face read without moving the cursor
Face_read_peek(b, p) == IF p + 12 > Len(b) THEN ErrR("Io", p) ELSE OkR(p, Words(b, p, 3))

\* one pass of the loop of Tris::read: data.read_u32_into(&mut [0; 3])?
Face_read(b, p) == ReadF32Into(b, p, 3)

Bone_read(b, p) ==
    LET r == ReadFields(b, p, <<U32F, U32F>>) IN
    IF r.err # "none" THEN r
    ELSE OkR(r.pos, [vertex_id |-> r.val[1], weight |-> r.val[2]])

\* Key::read with the tests of flags & 1 and flags & 4 exchanged
Key_read_swapped(b, p, flags) ==
    LET r == ReadFields(b, p, <<U32F, OptF32s(3, Bit(flags, 4)),
                                OptF32s(3, Bit(flags, 2)), OptF32s(4, Bit(flags, 1))>>) IN
    IF r.err # "none" THEN r
    ELSE OkR(r.pos, [frame |-> r.val[1], position |-> r.val[2],
                     scale |-> r.val[3], rotation |-> r.val[4]])

Key_read(b, p, flags) ==
    LET r == ReadFields(b, p, <<U32F, OptF32s(3, Bit(flags, 1)),
                                OptF32s(3, Bit(flags, 2)), OptF32s(4, Bit(flags, 4))>>) IN
    IF r.err # "none" THEN r
    ELSE OkR(r.pos, [frame |-> r.val[1], position |-> r.val[2],
                     scale |-> r.val[3], rotation |-> r.val[4]])

Animation_read(b, p) ==
    LET r == ReadFields(b, p, <<U32F, U32F, U32F>>) IN
    IF r.err # "none" THEN r
    ELSE OkR(r.pos, [flags |-> r.val[1], frames |-> r.val[2], fps |-> r.val[3]])

Sequence_read(b, p) ==
    LET r == ReadFields(b, p, <<StrF, U32F, U32F, U32F>>) IN
    IF r.err # "none" THEN r
    ELSE OkR(r.pos, [name |-> r.val[1], something |-> r.val[2],
                     something2 |-> r.val[3], something3 |-> r.val[4]])

\* #[derive(Default)]
DefaultVerts == [flags |-> Zero, tex_coord_sets |-> Zero, tex_coord_set_size |-> Zero,
                 vertices |-> <<>>]

DefaultMesh == [brush_id |-> Zero, vertices |-> DefaultVerts, triangles |-> <<>>]

DefaultAnimation == [flags |-> Zero, frames |-> Zero, fps |-> Zero]

DefaultNode ==
    [name |-> <<>>, position |-> Zeros(3), scale |-> Zeros(3), rotation |-> Zeros(4),
     mesh |-> DefaultMesh, bones |-> <<>>, key_flags |-> Zero, keys |-> <<>>,
     children |-> <<>>, animation |-> DefaultAnimation, sequences |-> <<>>]

---------------------------------------------------------------------------
(* The decoder as a machine.  outcome.kind is "running" until B3D::read    *)
(* ends: "Ok" with the Document, an Err of kind "Io", "Utf8" or            *)
(* "InvalidChunk" (B3dError), or a panic.  A frame of the call stack is    *)
(* one decoder in                                                          *)
(* its loop: fn names it, chunk is the header of the chunk whose body it   *)
(* decodes (its loop runs while eof(pos, chunk.next)), v holds its locals, *)
(* and reads lists the headers its own loop has read so far.               *)

Frame(fn, chunk, v, reads) == [fn |-> fn, chunk |-> chunk, v |-> v, reads |-> reads]

Top == stack[Len(stack)]

Below == SubSeq(stack, 1, Len(stack) - 1)

NoDoc == [version |-> Zero, textures |-> <<>>, brushes |-> <<>>, node |-> DefaultNode]

Running == [kind |-> "running", chunk |-> NoChunk, doc |-> NoDoc]

\* what the last step returned from: the decoder fn of chunk returned val with the
\* cursor at pos, having read the headers reads in its own loop
NoDone == [fn |-> "none", chunk |-> NoChunk, pos |-> 0, val |-> <<>>, reads |-> <<>>]

Returned(fn, chunk, p, val, reads) ==
    [fn |-> fn, chunk |-> chunk, pos |-> p, val |-> val, reads |-> reads]

\* the next configuration of the machine
Go(p, st) == [pos |-> p, stack |-> st, outcome |-> Running, done |-> NoDone, dec |-> decoded]

\* Err(e) leaving B3D::read by the `?` of every caller, or the panic of an unwrap;
\* the stack is left as it was, the decoders the failure unwinds through
Failed(kind) ==
    [pos |-> pos, stack |-> stack, outcome |-> [kind |-> kind, chunk |-> NoChunk, doc |-> NoDoc],
     done |-> NoDone, dec |-> decoded]

\* the unknown chunk skipped and the loop continued
Invalid_skipped(chunk) == Go(chunk.position + 8 + chunk.size.lo, stack)

\* return Err(B3dError::InvalidChunk(chunk).into())
Invalid(chunk) ==
    [pos |-> chunk.position + 8, stack |-> stack,
     outcome |-> [kind |-> "InvalidChunk", chunk |-> chunk, doc |-> NoDoc],
     done |-> NoDone, dec |-> decoded]

\* children = vec![child] in place of children.push(child)
Resume_replacing(caller, fn, x) ==
    IF fn = "read_textures" THEN [caller EXCEPT !.v.textures = x]
    ELSE IF fn = "read_brushes" THEN [caller EXCEPT !.v.brushes = x]
    ELSE IF fn = "Verts" THEN [caller EXCEPT !.v.vertices = x]
    ELSE IF fn = "Tris" THEN [caller EXCEPT !.v.triangles = Append(@, x)]
    ELSE IF fn = "Mesh" THEN [caller EXCEPT !.v.mesh = x]
    ELSE IF fn = "read_bones" THEN [caller EXCEPT !.v.bones = x]
    ELSE IF fn = "read_keys" THEN [caller EXCEPT !.v.keys = x]
    ELSE IF caller.fn = "B3D" THEN [caller EXCEPT !.v.node = x]
    ELSE [caller EXCEPT !.v.children = <<x>>]

\* textures.extend(..) in place of textures = ..
Resume_extending(caller, fn, x) ==
    IF fn = "read_textures" THEN [caller EXCEPT !.v.textures = @ \o x]
    ELSE IF fn = "read_brushes" THEN [caller EXCEPT !.v.brushes = x]
    ELSE IF fn = "Verts" THEN [caller EXCEPT !.v.vertices = x]
    ELSE IF fn = "Tris" THEN [caller EXCEPT !.v.triangles = Append(@, x)]
    ELSE IF fn = "Mesh" THEN [caller EXCEPT !.v.mesh = x]
    ELSE IF fn = "read_bones" THEN [caller EXCEPT !.v.bones = x]
    ELSE IF fn = "read_keys" THEN [caller EXCEPT !.v.keys = x]
    ELSE IF caller.fn = "B3D" THEN [caller EXCEPT !.v.node = x]
    ELSE [caller EXCEPT !.v.children = Append(@, x)]

\* the caller's frame once the decoder fn it called has returned x
Resume(caller, fn, x) ==
    IF fn = "read_textures" THEN [caller EXCEPT !.v.textures = x]
    ELSE IF fn = "read_brushes" THEN [caller EXCEPT !.v.brushes = x]
    ELSE IF fn = "Verts" THEN [caller EXCEPT !.v.vertices = x]
    ELSE IF fn = "Tris" THEN [caller EXCEPT !.v.triangles = Append(@, x)]
    ELSE IF fn = "Mesh" THEN [caller EXCEPT !.v.mesh = x]
    ELSE IF fn = "read_bones" THEN [caller EXCEPT !.v.bones = x]
    ELSE IF fn = "read_keys" THEN [caller EXCEPT !.v.keys = x]
    ELSE IF caller.fn = "B3D" THEN [caller EXCEPT !.v.node = x]
    ELSE [caller EXCEPT !.v.children = Append(@, x)]

\* Ok(x) from the decoder on top of the stack
Return(x) ==
    [pos |-> pos,
     stack |-> Append(SubSeq(stack, 1, Len(stack) - 2), Resume(stack[Len(stack) - 1], Top.fn, x)),
     outcome |-> Running,
     done |-> Returned(Top.fn, Top.chunk, pos, x, Top.reads),
     dec |-> IF Top.fn \in {"Node", "Mesh", "read_textures", "read_brushes"}
             THEN (Top.chunk.position :> x) @@ decoded
             ELSE decoded]

\* the top frame having read header c in its loop
Noted(c) == Append(Below, [Top EXCEPT !.reads = Append(@, c)])

\* Node::read up to its loop, called on header c with the cursor at p
Node_enter(c, p) ==
    LET r == ReadFields(buf, p, <<StrF, F32s(3), F32s(3), F32s(4)>>) IN
    IF r.err # "none" THEN Failed(r.err)
    ELSE Go(r.pos, Append(Noted(c),
            Frame("Node", c,
                  [DefaultNode EXCEPT !.name = r.val[1], !.position = r.val[2],
                                      !.scale = r.val[3], !.rotation = r.val[4]],
                  <<>>)))

\* Mesh::read up to the loop of Verts::read
Mesh_enter(c, p) ==
    LET r == ReadFields(buf, p, <<U32F>>) IN
    IF r.err # "none" THEN Failed(r.err)
    ELSE LET vc == Chunk_read(buf, r.pos) IN
         IF vc.err # "none" THEN Failed(vc.err)
         ELSE LET h == ReadFields(buf, vc.pos, <<U32F, U32F, U32F>>) IN
              IF h.err # "none" THEN Failed(h.err)
              ELSE Go(h.pos,
                      Noted(c) \o
                      <<Frame("Mesh", c, [DefaultMesh EXCEPT !.brush_id = r.val[1]], <<vc.val>>),
                        Frame("Verts", vc.val,
                              [DefaultVerts EXCEPT !.flags = h.val[1], !.tex_coord_sets = h.val[2],
                                                   !.tex_coord_set_size = h.val[3]],
                              <<>>)>>)

\* the outer tag not compared with "BB3D"
B3D_enter_unchecked ==
    LET c == Chunk_read(buf, pos) IN
    IF c.err # "none" THEN Failed(c.err)
    ELSE LET v == ReadU32(buf, c.pos) IN
         IF v.err # "none" THEN Failed(v.err)
         ELSE Go(v.pos, <<Frame("B3D", c.val, [NoDoc EXCEPT !.version = v.val], <<>>)>>)

\* B3D::read up to its loop
B3D_enter ==
    LET c == Chunk_read(buf, pos) IN
    IF c.err # "none" THEN Failed(c.err)
    ELSE IF c.val.tag # BB3D THEN Invalid(c.val)
    ELSE LET v == ReadU32(buf, c.pos) IN
         IF v.err # "none" THEN Failed(v.err)
         ELSE Go(v.pos, <<Frame("B3D", c.val, [NoDoc EXCEPT !.version = v.val], <<>>)>>)

\* the match of the loop of B3D::read on header c, the cursor at p
B3D_dispatch(c, p) ==
    IF c.tag = TEXS THEN Go(p, Append(Noted(c), Frame("read_textures", c, <<>>, <<>>)))
    ELSE IF c.tag = BRUS THEN
        LET n == ReadU32(buf, p) IN
        IF n.err # "none" THEN Failed(n.err)
        ELSE Go(n.pos, Append(Noted(c),
                  Frame("read_brushes", c, [brushes |-> <<>>, n_texs |-> n.val], <<>>)))
    ELSE IF c.tag = NODE THEN Node_enter(c, p)
    ELSE Invalid(c)

\* one pass of the loop of B3D::read, or the Ok(Self { .. }) after it
B3D_step ==
    IF eof(pos, Top.chunk.next) THEN
        LET c == Chunk_read(buf, pos) IN
        IF c.err # "none" THEN Failed(c.err) ELSE B3D_dispatch(c.val, c.pos)
    ELSE [pos |-> pos, stack |-> <<>>,
          outcome |-> [kind |-> "Ok", chunk |-> NoChunk, doc |-> Top.v],
          done |-> Returned("B3D", Top.chunk, pos, Top.v, Top.reads), dec |-> decoded]

\* one pass of the loop of B3D::read_textures, or its Ok(textures)
read_textures_step ==
    IF eof(pos, Top.chunk.next) THEN
        LET r == Texture_read(buf, pos) IN
        IF r.err # "none" THEN Failed(r.err)
        ELSE Go(r.pos, Append(Below, [Top EXCEPT !.v = Append(@, r.val)]))
    ELSE Return(Top.v)

\* one pass of the loop of B3D::read_brushes, or its Ok(brushes)
read_brushes_step ==
    IF eof(pos, Top.chunk.next) THEN
        LET r == Brush_read(buf, pos, Top.v.n_texs) IN
        IF r.err # "none" THEN Failed(r.err)
        ELSE Go(r.pos, Append(Below, [Top EXCEPT !.v.brushes = Append(@, r.val)]))
    ELSE Return(Top.v.brushes)

\* the match of the loop of Node::read on header c, the cursor at p
Node_dispatch(c, p) ==
    IF c.tag = MESH THEN Mesh_enter(c, p)
    ELSE IF c.tag = BONE THEN Go(p, Append(Noted(c), Frame("read_bones", c, <<>>, <<>>)))
    ELSE IF c.tag = KEYS THEN
        LET k == ReadU32(buf, p) IN
        IF k.err # "none" THEN Failed(k.err)
        ELSE Go(k.pos, Append(Append(Below, [Top EXCEPT !.reads = Append(@, c),
                                                        !.v.key_flags = k.val]),
                              Frame("read_keys", c, [keys |-> <<>>, flags |-> k.val], <<>>)))
    ELSE IF c.tag = NODE THEN Node_enter(c, p)
    ELSE IF c.tag = ANIM THEN
        LET a == Animation_read(buf, p) IN
        IF a.err # "none" THEN Failed(a.err)
        ELSE [Go(a.pos, Append(Below, [Top EXCEPT !.reads = Append(@, c),
                                                  !.v.animation = a.val]))
              EXCEPT !.done = Returned("Animation", c, a.pos, a.val, <<>>)]
    ELSE IF c.tag = SEQS THEN
        LET q == Sequence_read(buf, p) IN
        IF q.err # "none" THEN Failed(q.err)
        ELSE [Go(q.pos, Append(Below, [Top EXCEPT !.reads = Append(@, c),
                                                  !.v.sequences = Append(@, q.val)]))
              EXCEPT !.done = Returned("Sequence", c, q.pos, q.val, <<>>)]
    ELSE Invalid(c)

\* one pass of the loop of Node::read, or its Ok(Self { .. })
Node_step ==
    IF eof(pos, Top.chunk.next) THEN
        LET c == Chunk_read(buf, pos) IN
        IF c.err # "none" THEN Failed(c.err) ELSE Node_dispatch(c.val, c.pos)
    ELSE Return(Top.v)

\* one pass of the loop of Verts::read, or its Ok(Self { .. })
Verts_step ==
    IF eof(pos, Top.chunk.next) THEN
        LET r == Vertice_read(buf, pos, Top.v.flags) IN
        IF r.err # "none" THEN Failed(r.err)
        ELSE Go(r.pos, Append(Below, [Top EXCEPT !.v.vertices = Append(@, r.val)]))
    ELSE Return(Top.v)

\* the loop of Mesh::read with a match on the tag of the chunk it reads
Mesh_step_checked ==
    IF eof(pos, Top.chunk.next) THEN
        LET c == Chunk_read(buf, pos) IN
        IF c.err # "none" THEN Failed(c.err)
        ELSE IF c.val.tag # TRIS THEN Invalid(c.val)
        ELSE LET r == ReadU32(buf, c.pos) IN
             IF r.err # "none" THEN Failed(r.err)
             ELSE Go(r.pos, Append(Noted(c.val),
                       Frame("Tris", c.val, [brush_id |-> r.val, indices |-> <<>>], <<>>)))
    ELSE Return(Top.v)

\* one pass of the loop of Mesh::read (a header and Tris::read up to its loop),
\* or its Ok(Self { .. })
Mesh_step ==
    IF eof(pos, Top.chunk.next) THEN
        LET c == Chunk_read(buf, pos) IN
        IF c.err # "none" THEN Failed(c.err)
        ELSE LET r == ReadU32(buf, c.pos) IN
             IF r.err # "none" THEN Failed(r.err)
             ELSE Go(r.pos, Append(Noted(c.val),
                       Frame("Tris", c.val, [brush_id |-> r.val, indices |-> <<>>], <<>>)))
    ELSE Return(Top.v)

\* one pass of the loop of Tris::read, or its Ok(Self { .. })
Tris_step ==
    IF eof(pos, Top.chunk.next) THEN
        LET r == Face_read(buf, pos) IN
        IF r.err # "none" THEN Failed(r.err)
        ELSE Go(r.pos, Append(Below, [Top EXCEPT !.v.indices = Append(@, r.val)]))
    ELSE Return(Top.v)

\* one pass of the loop of Node::read_bones, or its Ok(bones)
read_bones_step ==
    IF eof(pos, Top.chunk.next) THEN
        LET r == Bone_read(buf, pos) IN
        IF r.err # "none" THEN Failed(r.err)
        ELSE Go(r.pos, Append(Below, [Top EXCEPT !.v = Append(@, r.val)]))
    ELSE Return(Top.v)

\* one pass of the loop of Node::read_keys, or its Ok(keys)
read_keys_step ==
    IF eof(pos, Top.chunk.next) THEN
        LET r == Key_read(buf, pos, Top.v.flags) IN
        IF r.err # "none" THEN Failed(r.err)
        ELSE Go(r.pos, Append(Below, [Top EXCEPT !.v.keys = Append(@, r.val)]))
    ELSE Return(Top.v.keys)

Become(n) ==
    /\ pos' = n.pos
    /\ stack' = n.stack
    /\ outcome' = n.outcome
    /\ done' = n.done
    /\ decoded' = n.dec
    /\ UNCHANGED <<buf, input>>

In(fn) == outcome.kind = "running" /\ stack # <<>> /\ Top.fn = fn

B3D_read == outcome.kind = "running" /\ stack = <<>> /\ Become(B3D_enter)

B3D_loop == In("B3D") /\ Become(B3D_step)

read_textures == In("read_textures") /\ Become(read_textures_step)

read_brushes == In("read_brushes") /\ Become(read_brushes_step)

Node_read == In("Node") /\ Become(Node_step)

Mesh_read == In("Mesh") /\ Become(Mesh_step)

Verts_read == In("Verts") /\ Become(Verts_step)

Tris_read == In("Tris") /\ Become(Tris_step)

read_bones == In("read_bones") /\ Become(read_bones_step)

read_keys == In("read_keys") /\ Become(read_keys_step)

Next ==
    \/ B3D_read
    \/ B3D_loop
    \/ read_textures
    \/ read_brushes
    \/ Node_read
    \/ Mesh_read
    \/ Verts_read
    \/ Tris_read
    \/ read_bones
    \/ read_keys

---------------------------------------------------------------------------
(* The inputs.  A shape describes a well-formed file; Encode lays it out   *)
(* as bytes.  The buffers decoded are the files of Shapes, every proper    *)
(* prefix of the file of Base (a truncation), and the file of Base with    *)
(* one byte overwritten by a value of ByteVals (a wrong tag, size, flag    *)
(* or name byte).                                                          *)

MaxRecs == 2
MaxTexs == 2
MaxDepth == 2
MaxKids == 2
MaxName == 2

LE(n) == <<n % 256, (n \div 256) % 256, 0, 0>>

RECURSIVE Rep(_, _)
Rep(k, x) == IF k = 0 THEN <<>> ELSE LE(x) \o Rep(k - 1, x)

\* the concatenation of F(1), ..., F(k)
RECURSIVE Flat(_)
Flat(ss) == IF ss = <<>> THEN <<>> ELSE ss[1] \o Flat(Tail(ss))

Cat(k, F(_)) == Flat([i \in 1..k |-> F(i)])

ChunkOf(tag, body) == tag \o LE(Len(body)) \o body

NameOf(len, a, b) == [i \in 1..len |-> IF i = 1 THEN a ELSE b] \o <<0>>

Bool(x) == IF x THEN 1 ELSE 0

TextureOf(s, i) == NameOf(s.name, 116, 48 + i) \o LE(i) \o LE(2) \o Rep(2, 3) \o Rep(2, 4) \o LE(5)

BrushOf(s, n, i) == NameOf(s.name, 98, 48 + i) \o Rep(4, 6) \o LE(7) \o LE(8) \o LE(9) \o Rep(n, i)

BrusOf(s, n) == ChunkOf(BRUS, LE(n) \o Cat(s.brushes, LAMBDA i : BrushOf(s, n, i)))

VertOf(s, id, i) ==
    Rep(3, 10 + i) \o Rep(3 * Bool(s.vflags % 2 = 1), 20 + i)
                   \o Rep(4 * Bool(s.vflags \div 2 = 1), 30 + i) \o Rep(2, 40 + id)

TrisOf(s, j) == ChunkOf(TRIS, LE(j) \o Cat(s.faces, LAMBDA i : Rep(3, i)))

MeshOf(s, id) ==
    ChunkOf(MESH, LE(id)
        \o ChunkOf(VRTS, LE(s.vflags) \o LE(1) \o LE(2) \o Cat(s.verts, LAMBDA i : VertOf(s, id, i)))
        \o Cat(s.blocks, LAMBDA j : TrisOf(s, j)))

KeyOf(s, i) ==
    LE(i) \o Rep(3 * Bool(s.kflags % 2 = 1), 50 + i)
          \o Rep(3 * Bool((s.kflags \div 2) % 2 = 1), 60 + i)
          \o Rep(4 * Bool(s.kflags \div 4 = 1), 70 + i)

ExtrasOf(s) ==
    ChunkOf(BONE, Cat(s.bones, LAMBDA i : LE(i) \o LE(80 + i)))
    \o ChunkOf(KEYS, LE(s.kflags) \o Cat(s.keys, LAMBDA i : KeyOf(s, i)))
    \o ChunkOf(ANIM, LE(1) \o LE(s.keys) \o LE(60))
    \o Cat(s.seqs, LAMBDA i : ChunkOf(SEQS, NameOf(s.name, 115, 48 + i) \o LE(i) \o LE(i) \o LE(i)))

\* the node numbered id at the given level: every node has a mesh, the roots
\* have the bones, keys, animation and sequences, and the levels above
\* s.depth have s.kids children each
RECURSIVE NodeOf(_, _, _)
NodeOf(s, level, id) ==
    ChunkOf(NODE, NameOf(s.name, 78, 48 + id) \o Rep(10, id)
        \o MeshOf(s, id)
        \o (IF level = 0 THEN ExtrasOf(s) ELSE <<>>)
        \o (IF level < s.depth THEN Cat(s.kids, LAMBDA k : NodeOf(s, level + 1, 4 * id + k))
            ELSE <<>>))

Encode(s) ==
    ChunkOf(BB3D, LE(1)
        \o ChunkOf(TEXS, Cat(s.textures, LAMBDA i : TextureOf(s, i)))
        \o (IF s.texs2 THEN ChunkOf(TEXS, Cat(s.textures + 1, LAMBDA i : TextureOf(s, i + 4)))
            ELSE <<>>)
        \o BrusOf(s, s.n_texs)
        \o (IF s.brus2 THEN BrusOf(s, s.n_texs + 1) ELSE <<>>)
        \o Cat(s.roots, LAMBDA r : NodeOf(s, 0, r)))

Base ==
    [name |-> 1, textures |-> 1, texs2 |-> FALSE, brushes |-> 1, n_texs |-> 1, brus2 |-> FALSE,
     vflags |-> 3, verts |-> 1, blocks |-> 1, faces |-> 1, bones |-> 1,
     kflags |-> 7, keys |-> 1, seqs |-> 1, roots |-> 1, depth |-> 1, kids |-> 1]

Shapes ==
    {Base}
    \cup {[Base EXCEPT !.name = n] : n \in 0..MaxName}
    \cup {[Base EXCEPT !.textures = n] : n \in 0..MaxRecs}
    \cup {[Base EXCEPT !.brushes = n, !.n_texs = t, !.brus2 = b] :
            n \in 0..MaxRecs, t \in 0..MaxTexs, b \in BOOLEAN}
    \cup {[Base EXCEPT !.vflags = f, !.verts = n] : f \in 0..3, n \in 0..MaxRecs}
    \cup {[Base EXCEPT !.blocks = n, !.faces = m] : n \in 0..MaxRecs, m \in 0..MaxRecs}
    \cup {[Base EXCEPT !.bones = n] : n \in 0..MaxRecs}
    \cup {[Base EXCEPT !.kflags = f, !.keys = n] : f \in 0..7, n \in 0..MaxRecs}
    \cup {[Base EXCEPT !.seqs = n, !.roots = r] : n \in 0..MaxRecs, r \in 0..MaxRecs}
    \cup {[Base EXCEPT !.depth = d, !.kids = k] : d \in 0..MaxDepth, k \in 0..MaxKids}
    \cup {[Base EXCEPT !.texs2 = t, !.brus2 = b, !.roots = r] :
            t \in BOOLEAN, b \in BOOLEAN, r \in 0..MaxRecs}

ByteVals == {0, 1, 88, 255}

Whole(s) == [shape |-> s, kind |-> "whole", at |-> 0, val |-> 0]

Inputs ==
    {Whole(s) : s \in Shapes}
    \cup {[shape |-> Base, kind |-> "cut", at |-> k, val |-> 0] : k \in 0..(Len(Encode(Base)) - 1)}
    \cup {[shape |-> Base, kind |-> "set", at |-> i, val |-> v] :
            i \in 1..Len(Encode(Base)), v \in ByteVals}

BufOf(in) ==
    LET full == Encode(in.shape) IN
    IF in.kind = "cut" THEN SubSeq(full, 1, in.at)
    ELSE IF in.kind = "set" THEN [full EXCEPT ![in.at] = in.val]
    ELSE full

Init ==
    /\ input \in Inputs
    /\ buf = BufOf(input)
    /\ pos = 0
    /\ stack = <<>>
    /\ outcome = Running
    /\ done = NoDone
    /\ decoded = <<>>

Spec == Init /\ [][Next]_vars

Finished == outcome.kind # "running"

---------------------------------------------------------------------------
(* Claims *)

\* C1 (as claimed): after every chunk decoder that returns without error, the
\* cursor is exactly at that chunk's end offset start + size + 8.
C1_CursorAtChunkEnd == done.fn # "none" => EqW(done.pos, done.chunk.next)

\* C2 (as claimed): a well-formed buffer truncated strictly inside a chunk body
\* decodes to an I/O-bounds error value and to nothing else.
C2_TruncationIsIoError ==
    (Finished /\ input.kind = "cut" /\ input.at > 8) => outcome.kind = "Io"

\* the offset of the name string the next step reads first, -1 when it reads none:
\* the file of a Texture, the name of a Brush, the name of a Node or of a Sequence
\* right after its header
NameAt ==
    IF outcome.kind # "running" \/ stack = <<>> THEN -1
    ELSE IF ~eof(pos, Top.chunk.next) THEN -1
    ELSE IF Top.fn \in {"read_textures", "read_brushes"} THEN pos
    ELSE IF Top.fn \in {"B3D", "Node"} /\ pos + 8 <= Len(buf)
            /\ (Bytes(buf, pos, 4) = NODE \/ (Top.fn = "Node" /\ Bytes(buf, pos, 4) = SEQS))
         THEN pos + 8
    ELSE -1

\* the string at p has its terminating zero and the bytes before it are not UTF-8
BadNameAt(p) ==
    /\ ZeroAt(buf, p) < Len(buf)
    /\ ~ValidUtf8(Bytes(buf, p, ZeroAt(buf, p) - p))

\* C3 (as claimed): a name or file string whose bytes are not valid UTF-8 ends
\* the decode with the text-decode (Utf8) error value.
C3_InvalidNameIsUtf8Error ==
    [][(NameAt >= 0 /\ BadNameAt(NameAt)) => outcome'.kind = "Utf8"]_vars

TopTags == {TEXS, BRUS, NODE}

NodeTags == {MESH, BONE, KEYS, NODE, ANIM, SEQS}

\* the loop of decoder fn is about to read a header whose tag is text outside tags
UnknownTagAt(fn, tags) ==
    /\ In(fn)
    /\ eof(pos, Top.chunk.next)
    /\ pos + 8 <= Len(buf)
    /\ ValidUtf8(Bytes(buf, pos, 4))
    /\ Bytes(buf, pos, 4) \notin tags

\* C4: a header read by the loop of B3D::read with a tag outside TEXS, BRUS, NODE,
\* or by the loop of Node::read (at any depth) with a tag outside MESH, BONE, KEYS,
\* NODE, ANIM, SEQS, ends the decode with the invalid-chunk error carrying that
\* header's tag, size and start offset, and nothing after the header is decoded.
C4_UnknownTagIsInvalidChunk ==
    [][(UnknownTagAt("B3D", TopTags) \/ UnknownTagAt("Node", NodeTags)) =>
          /\ outcome'.kind = "InvalidChunk"
          /\ outcome'.chunk = [tag |-> Bytes(buf, pos, 4), size |-> ReadU32(buf, pos + 4).val,
                               position |-> pos, next |-> WAdd(ReadU32(buf, pos + 4).val, pos + 8)]
          /\ pos' = pos + 8
          /\ stack' = stack]_vars

\* an unknown tag inside a child node
C4_Witness == outcome.kind = "InvalidChunk" /\ Len(stack) >= 3 /\ Top.fn = "Node"

\* C5: when the outer header's tag is not BB3D the decode ends with the
\* invalid-chunk error carrying that header (offset 0), the cursor still right
\* after the header and no decoder entered; a Document is returned only when the
\* outer tag is BB3D.
C5_OuterTagMustBeBB3D ==
    Finished =>
        /\ (Len(buf) >= 8 /\ ValidUtf8(Bytes(buf, 0, 4)) /\ Bytes(buf, 0, 4) # BB3D) =>
              /\ outcome.kind = "InvalidChunk"
              /\ outcome.chunk = [tag |-> Bytes(buf, 0, 4), size |-> ReadU32(buf, 4).val,
                                  position |-> 0, next |-> WAdd(ReadU32(buf, 4).val, 8)]
              /\ pos = 8
              /\ stack = <<>>
        /\ outcome.kind = "Ok" => Bytes(buf, 0, 4) = BB3D

C5_Witness ==
    outcome.kind = "InvalidChunk" /\ outcome.chunk.position = 0 /\ outcome.chunk.tag # BB3D

\* C6 (as claimed): every decode ends in a Document or in one error value of kind
\* I/O-bounds, text-decode or invalid-chunk.
C6_DocumentOrErrorValue ==
    Finished => outcome.kind \in {"Ok", "Io", "Utf8", "InvalidChunk"}

\* the flags of the vertex block on top of the stack: the u32 after its header
BlockFlags == ReadU32(buf, Top.chunk.position + 8).val

\* C7: each vertex of a vertex block is read as position, normal if bit 0 of the
\* block's flags is set, color if bit 1 is set, texture coordinate; a field whose
\* bit is clear is all zeros and takes no bytes.
C7_VertexFlags ==
    [][(In("Verts") /\ eof(pos, Top.chunk.next) /\ outcome'.kind = "running") =>
          LET n == Bool(Bit(BlockFlags, 1))
              c == Bool(Bit(BlockFlags, 2))
              was == Top.v.vertices
              now == Top'.v.vertices
              v == now[Len(now)]
          IN  /\ now = Append(was, v)
              /\ pos' = pos + 12 + 12 * n + 16 * c + 8
              /\ v.position = Words(buf, pos, 3)
              /\ v.normal = IF n = 1 THEN Words(buf, pos + 12, 3) ELSE <<Zero, Zero, Zero>>
              /\ v.color = IF c = 1 THEN Words(buf, pos + 12 + 12 * n, 4)
                           ELSE <<Zero, Zero, Zero, Zero>>
              /\ v.tex_coords = Words(buf, pos + 12 + 12 * n + 16 * c, 2)]_vars

\* a vertex decoded in a block with bit 0 clear and bit 1 set
C7_Witness ==
    /\ In("Verts")
    /\ Len(Top.v.vertices) >= 1
    /\ ~Bit(BlockFlags, 1)
    /\ Bit(BlockFlags, 2)
    /\ Top.v.vertices[1].color # <<Zero, Zero, Zero, Zero>>

\* the headers of tag t among hs, in the order read
Tagged(hs, t) == SelectSeq(hs, LAMBDA c : c.tag = t)

\* C8: in a returned Document every brush has as many texture ids as the u32 read
\* right after the header of the BRUS chunk its list was decoded from, the last
\* one of the file.
C8_BrushTextureCount ==
    outcome.kind = "Ok" =>
        LET brus == Tagged(done.reads, BRUS)
            brushes == outcome.doc.brushes
        IN  IF brus = <<>> THEN brushes = <<>>
            ELSE \A i \in 1..Len(brushes) :
                    EqW(Len(brushes[i].texture_id),
                        ReadU32(buf, brus[Len(brus)].position + 8).val)

\* two BRUS chunks with different counts, the second one with several brushes
C8_Witness ==
    /\ outcome.kind = "Ok"
    /\ Len(Tagged(done.reads, BRUS)) = 2
    /\ ReadU32(buf, Tagged(done.reads, BRUS)[1].position + 8).val
         # ReadU32(buf, Tagged(done.reads, BRUS)[2].position + 8).val
    /\ Len(outcome.doc.brushes) >= 2
    /\ Len(outcome.doc.brushes[1].texture_id) >= 1

Decoders ==
    {"B3D", "read_textures", "read_brushes", "Node", "Mesh", "Verts", "Tris",
     "read_bones", "read_keys"}

\* the decode has not ended and a step of it is due: B3D::read is to be entered,
\* or the decoder on top of the stack is at the head of its loop
Due == outcome.kind = "running" /\ (stack = <<>> \/ Top.fn \in Decoders)

\* a step of the decoder: a pass of a loop that is not at its chunk's end offset
\* moves the cursor forward, never past the end of the buffer, or ends the decode,
\* and a loop at or past its end offset returns to its caller
Advances ==
    \/ Finished'
    \/ stack = <<>> /\ pos < pos' /\ pos' <= Len(buf)
    \/ stack # <<>> /\ eof(pos, Top.chunk.next) /\ pos < pos' /\ pos' <= Len(buf)
    \/ stack # <<>> /\ ~eof(pos, Top.chunk.next) /\ pos' = pos /\ Len(stack') = Len(stack) - 1

\* C9: the decode of every buffer ends: until it has ended a step is due, and
\* every step ends it, moves the cursor forward within the buffer in a loop that
\* is before its chunk's end offset, or leaves a loop that is not; so
\* (Len(buf) - pos, Len(stack)) decreases at every step and no run is infinite.
C9_Terminates == [](Finished \/ Due) /\ [][Advances]_vars

\* a decode ended by the end of the buffer inside a chunk that declares a size of
\* 65536 bytes or more, far past the end of the buffer
C9_Witness == outcome.kind = "Io" /\ Len(stack) >= 2 /\ Top.chunk.next.hi > 0

\* C10: a returned Node has one child per NODE header its own loop read, in the
\* order read, each the Node decoded from that chunk, and its mesh is the Mesh
\* decoded from the last MESH header its own loop read.
C10_ChildrenMirrorChunks ==
    done.fn = "Node" =>
        LET nodes == Tagged(done.reads, NODE)
            meshes == Tagged(done.reads, MESH)
        IN  /\ done.val.children = [i \in 1..Len(nodes) |-> decoded[nodes[i].position]]
            /\ done.val.mesh = IF meshes = <<>> THEN DefaultMesh
                               ELSE decoded[meshes[Len(meshes)].position]

\* a node with two children that have children and meshes of their own
C10_Witness ==
    /\ done.fn = "Node"
    /\ Len(done.val.children) = 2
    /\ done.val.children[1].children # <<>>
    /\ done.val.children[1].mesh # done.val.mesh
    /\ done.val.children[1] # done.val.children[2]

\* what was decoded from the last header of hs, none when hs is empty
LastOf(hs, none) == IF hs = <<>> THEN none ELSE decoded[hs[Len(hs)].position]

\* C11: a returned Document holds the texture list decoded from the last TEXS
\* chunk the top-level loop read, the brush list of the last BRUS chunk and the
\* Node of the last NODE chunk (the empty list, the default Node, when there is
\* none); what earlier chunks of the same tag gave is dropped.
C11_LastChunkWins ==
    outcome.kind = "Ok" =>
        /\ outcome.doc.textures = LastOf(Tagged(done.reads, TEXS), <<>>)
        /\ outcome.doc.brushes = LastOf(Tagged(done.reads, BRUS), <<>>)
        /\ outcome.doc.node = LastOf(Tagged(done.reads, NODE), DefaultNode)

\* two chunks of each tag at the top level, each pair decoded to different values
C11_Witness ==
    /\ outcome.kind = "Ok"
    /\ \A t \in {TEXS, BRUS, NODE} :
          /\ Len(Tagged(done.reads, t)) = 2
          /\ decoded[Tagged(done.reads, t)[1].position] # decoded[Tagged(done.reads, t)[2].position]
          /\ decoded[Tagged(done.reads, t)[1].position] # <<>>

\* C12: a Node loop pass that reads a KEYS header stores the u32 after the header
\* as the node's key_flags and starts read_keys past it; every pass of read_keys
\* appends one Key read under those flags: frame, then position, scale and
\* rotation, each read only if bit 0, 1, 2 is set and all zeros otherwise, the
\* cursor moving by 4 + 12*bit0 + 12*bit1 + 16*bit2 bytes.
C12_KeyFlags ==
    [][/\ (/\ In("Node") /\ eof(pos, Top.chunk.next)
           /\ Chunk_read(buf, pos).err = "none" /\ Chunk_read(buf, pos).val.tag = KEYS
           /\ outcome'.kind = "running") =>
              /\ Len(stack') = Len(stack) + 1
              /\ stack'[Len(stack)].v.key_flags = Words(buf, pos + 8, 1)[1]
              /\ Top'.fn = "read_keys"
              /\ Top'.chunk.position = pos
              /\ Top'.v.keys = <<>>
              /\ pos' = pos + 12
       /\ (In("read_keys") /\ eof(pos, Top.chunk.next) /\ outcome'.kind = "running") =>
              LET p == Bool(Bit(BlockFlags, 1))
                  s == Bool(Bit(BlockFlags, 2))
                  r == Bool(Bit(BlockFlags, 4))
                  now == Top'.v.keys
                  k == now[Len(now)]
              IN  /\ stack[Len(stack) - 1].v.key_flags = BlockFlags
                  /\ now = Append(Top.v.keys, k)
                  /\ pos' = pos + 4 + 12 * p + 12 * s + 16 * r
                  /\ k.frame = Words(buf, pos, 1)[1]
                  /\ k.position = IF p = 1 THEN Words(buf, pos + 4, 3) ELSE <<Zero, Zero, Zero>>
                  /\ k.scale = IF s = 1 THEN Words(buf, pos + 4 + 12 * p, 3)
                               ELSE <<Zero, Zero, Zero>>
                  /\ k.rotation = IF r = 1 THEN Words(buf, pos + 4 + 12 * p + 12 * s, 4)
                                  ELSE <<Zero, Zero, Zero, Zero>>]_vars

\* a key decoded in a KEYS chunk whose flags have bit 0 clear and bit 2 set
C12_Witness ==
    /\ In("read_keys")
    /\ Len(Top.v.keys) >= 1
    /\ ~Bit(BlockFlags, 1)
    /\ Bit(BlockFlags, 4)
    /\ Top.v.keys[1].rotation # <<Zero, Zero, Zero, Zero>>
    /\ stack[Len(stack) - 1].v.key_flags = BlockFlags

\* C13: decoding the body of a MESH chunk never compares a tag. A Node pass over
\* a MESH header starts Verts on the chunk whose header lies at header+12, a
\* Mesh pass starts Tris on the chunk whose header lies at the cursor, whatever
\* the tags are, and a returning Mesh has one triangle block per header read
\* after the first; the only failures of these passes and of Verts and Tris are
\* Io and Utf8, never InvalidChunk.
C13_MeshIgnoresTags ==
    [][/\ (/\ In("Node") /\ eof(pos, Top.chunk.next)
           /\ Chunk_read(buf, pos).err = "none" /\ Chunk_read(buf, pos).val.tag = MESH) =>
              /\ outcome'.kind \in {"running", "Io", "Utf8"}
              /\ outcome'.kind = "running" =>
                    /\ Top'.fn = "Verts"
                    /\ Top'.chunk = Chunk_read(buf, pos + 12).val
                    /\ stack'[Len(stack) + 1].fn = "Mesh"
                    /\ stack'[Len(stack) + 1].reads = <<Top'.chunk>>
                    /\ pos' = pos + 32
       /\ (In("Mesh") /\ eof(pos, Top.chunk.next)) =>
              /\ outcome'.kind \in {"running", "Io", "Utf8"}
              /\ outcome'.kind = "Utf8" => Chunk_read(buf, pos).err = "Utf8"
              /\ (Chunk_read(buf, pos).err = "none" /\ pos + 12 <= Len(buf)) =>
                    /\ outcome'.kind = "running"
                    /\ Top'.fn = "Tris"
                    /\ Top'.chunk = Chunk_read(buf, pos).val
                    /\ stack'[Len(stack)].reads = Append(Top.reads, Top'.chunk)
                    /\ pos' = pos + 12
       /\ (In("Mesh") /\ ~eof(pos, Top.chunk.next)) =>
              /\ outcome'.kind = "running"
              /\ done'.fn = "Mesh"
              /\ Len(done'.val.triangles) = Len(Top.reads) - 1
       /\ (In("Verts") \/ In("Tris")) => outcome'.kind \in {"running", "Io"}]_vars

\* a Mesh returned with a vertex block and a triangle block although one of the
\* headers read in its body has a tag other than VRTS and TRIS
C13_Witness ==
    /\ done.fn = "Mesh"
    /\ \E i \in 1..Len(done.reads) : done.reads[i].tag \notin {VRTS, TRIS}
    /\ done.val.vertices.vertices # <<>>
    /\ Len(done.val.triangles) = Len(done.reads) - 1
    /\ Len(done.val.triangles) >= 1

====
